---- MODULE Spec2Model ----
(***************************************************************************)
(* The layered layout engine of iesopttools.diagrams.layout.basic:         *)
(* class Vertex, class Edge, class Graph (add_vertex, add_edge, layout).   *)
(*                                                                         *)
(* Python objects are modelled by a heap: `heap` is the sequence of all    *)
(* Vertex objects ever constructed, an object reference is an index into   *)
(* it.  The dict Graph.vertices is the pair (order, vertices): `order` is  *)
(* the key insertion order of the dict, `vertices` maps a key to the       *)
(* reference stored under it.  Lists of Vertex references (in_edges,       *)
(* out_edges, Edge.source/target, the layers) hold references, so that a   *)
(* Vertex replaced in the dict by a second add_vertex of the same id stays *)
(* alive in the lists that refer to it, as it does in Python.              *)
(*                                                                         *)
(* Coordinates: (80 - height) / 2 is a float division in the source; the   *)
(* heights that reach it are 60, 80 and 40, for which it is exact, so the  *)
(* model computes it with integer division.                                *)
(***************************************************************************)
EXTENDS Integers, Sequences, FiniteSets, TLC

\* ---------------------------------------------------------------- inputs
\* Vertex ids are opaque dict keys, only compared for equality.  The k-th
\* distinct id a caller registers is IdSeq[k]; a call names a registered id
\* or the next id not yet registered.
IdSeq == <<"a", "b", "c">>
\* The type tags: the three recognised ones and an unrecognised one.
Kinds == {"Unit", "Node", "Profile", "Other"}

\* Bounds of the exploration.
MaxObjs == 3
MaxEdges == 3
MaxLayouts == 1

\* ------------------------------------------------------------- constants
\* Python's None, the value of dict.get(vtype, None) for a missing key.
None == -1
y_spacing == 120
x_spacing == 160

VARIABLES
    heap,       \* all Vertex objects constructed so far
    order,      \* Graph.vertices: keys in insertion order
    vertices,   \* Graph.vertices: key -> reference
    edges,      \* Graph.edges: sequence of <<source ref, target ref>>
    layers,     \* layout(): the local `layers` of the last layout() call
    positions,  \* layout(): the local `positions` of the last layout() call
    result,     \* the mapping returned by the last call, if it was layout()
    raised,     \* the exception the last call raised, "none" if it returned
    last,       \* the last call and its arguments
    nLayouts,   \* number of layout() calls so far
    objects     \* Sheet.objects: name -> class of the component

vars == <<heap, order, vertices, edges, layers, positions, result, raised, last, nLayouts,
          objects>>

graph == <<heap, order, vertices, edges>>

\* ---------------------------------------------------------------- helpers
Max(a, b) == IF a >= b THEN a ELSE b

EmptyMap == [i \in {} |-> 0]

\* d[k] = v on a Python dict
Put(d, k, v) == [i \in DOMAIN d \cup {k} |-> IF i = k THEN v ELSE d[i]]

Call(op, arg1, arg2) == [op |-> op, arg1 |-> arg1, arg2 |-> arg2]

\* ------------------------------------------------------------ class Vertex
Vertex(id, vtype) ==
    [id |-> id,
     vtype |-> vtype,
     width |-> CASE vtype = "Unit" -> 120 [] vtype = "Profile" -> 80 [] OTHER -> None,
     height |-> CASE vtype = "Unit" -> 60 [] vtype = "Profile" -> 80
                  [] vtype = "Node" -> 40 [] OTHER -> None,
     in_edges |-> <<>>,
     out_edges |-> <<>>,
     pos |-> <<0, 0>>]

\* adjust_width_for_edges counting the outgoing edges only
adjust_width_out_only(v) ==
    IF v.vtype = "Node"
    THEN [v EXCEPT !.width = Max(40, 20 + 10 * Len(v.out_edges))]
    ELSE v

\* adjust_width_for_edges without the test of the kind
adjust_width_any_kind(v) ==
    [v EXCEPT !.width = Max(40, 20 + 10 * (Len(v.in_edges) + Len(v.out_edges)))]

\* adjust_width_for_edges adding to the width the vertex already has
adjust_width_accumulating(v) ==
    IF v.vtype = "Node"
    THEN [v EXCEPT !.width = Max(40, (IF @ = None THEN 20 ELSE @)
                                     + 10 * (Len(v.in_edges) + Len(v.out_edges)))]
    ELSE v

adjust_width_for_edges(v) ==
    IF v.vtype = "Node"
    THEN [v EXCEPT !.width = Max(40, 20 + 10 * (Len(v.in_edges) + Len(v.out_edges)))]
    ELSE v

\* ------------------------------------------------------------- class Graph
\* self.vertices.values(): the references stored in the dict, in key order
values == [i \in DOMAIN order |-> vertices[order[i]]]

Init ==
    /\ heap = <<>>
    /\ order = <<>>
    /\ vertices = EmptyMap
    /\ edges = <<>>
    /\ layers = <<>>
    /\ positions = EmptyMap
    /\ result = EmptyMap
    /\ raised = "none"
    /\ last = Call("init", "", "")
    /\ nLayouts = 0
    /\ objects = EmptyMap

\* add_vertex that carries the adjacency lists of a vertex already stored
\* under the id over to the new one
add_vertex_keep_edges(id, vtype) ==
    /\ heap' = Append(heap,
                      IF id \in DOMAIN vertices
                      THEN [Vertex(id, vtype) EXCEPT !.in_edges = heap[vertices[id]].in_edges,
                                                     !.out_edges = heap[vertices[id]].out_edges]
                      ELSE Vertex(id, vtype))
    /\ vertices' = Put(vertices, id, Len(heap) + 1)
    /\ order' = IF id \in DOMAIN vertices THEN order ELSE Append(order, id)
    /\ raised' = "none"
    /\ last' = Call("add_vertex", id, vtype)
    /\ layers' = <<>>
    /\ positions' = EmptyMap
    /\ result' = EmptyMap
    /\ UNCHANGED <<edges, nLayouts>>

\* self.vertices[id] = Vertex(id, vtype): no check for an id already present;
\* assigning to an existing key keeps the key's place in the dict order.
add_vertex_call(id, vtype) ==
    /\ heap' = Append(heap, Vertex(id, vtype))
    /\ vertices' = Put(vertices, id, Len(heap) + 1)
    /\ order' = IF id \in DOMAIN vertices THEN order ELSE Append(order, id)
    /\ raised' = "none"
    /\ last' = Call("add_vertex", id, vtype)
    /\ layers' = <<>>
    /\ positions' = EmptyMap
    /\ result' = EmptyMap
    /\ UNCHANGED <<edges, nLayouts>>

\* add_vertex, as long as fewer than MaxObjs Vertex objects exist
add_vertex(id, vtype) ==
    /\ Len(heap) < MaxObjs
    /\ add_vertex_call(id, vtype)

\* add_edge that skips an edge with an unknown endpoint instead of raising
add_edge_skip_unknown(source_id, target_id) ==
    /\ IF source_id \notin DOMAIN vertices \/ target_id \notin DOMAIN vertices
       THEN /\ raised' = "none"
            /\ UNCHANGED <<heap, edges>>
       ELSE LET src == vertices[source_id]
                tgt == vertices[target_id]
                h1 == [heap EXCEPT ![src].out_edges = Append(@, tgt)]
                h2 == [h1 EXCEPT ![tgt].in_edges = Append(@, src)]
            IN  /\ Len(edges) < MaxEdges
                /\ edges' = Append(edges, <<src, tgt>>)
                /\ heap' = h2
                /\ raised' = "none"
    /\ last' = Call("add_edge", source_id, target_id)
    /\ layers' = <<>>
    /\ positions' = EmptyMap
    /\ result' = EmptyMap
    /\ UNCHANGED <<order, vertices, nLayouts>>

\* add_edge that does nothing when the edge list already has the edge
add_edge_dedup(source_id, target_id) ==
    /\ IF source_id \notin DOMAIN vertices \/ target_id \notin DOMAIN vertices
       THEN /\ raised' = "KeyError"
            /\ UNCHANGED <<heap, edges>>
       ELSE LET src == vertices[source_id]
                tgt == vertices[target_id]
                h1 == [heap EXCEPT ![src].out_edges = Append(@, tgt)]
                h2 == [h1 EXCEPT ![tgt].in_edges = Append(@, src)]
                dup == \E i \in DOMAIN edges : edges[i] = <<src, tgt>>
            IN  /\ Len(edges) < MaxEdges
                /\ edges' = IF dup THEN edges ELSE Append(edges, <<src, tgt>>)
                /\ heap' = IF dup THEN heap ELSE h2
                /\ raised' = "none"
    /\ last' = Call("add_edge", source_id, target_id)
    /\ layers' = <<>>
    /\ positions' = EmptyMap
    /\ result' = EmptyMap
    /\ UNCHANGED <<order, vertices, nLayouts>>

\* add_edge with tgt.in_edges.append(tgt) in place of tgt.in_edges.append(src)
add_edge_wrong_inbound(source_id, target_id) ==
    /\ IF source_id \notin DOMAIN vertices \/ target_id \notin DOMAIN vertices
       THEN /\ raised' = "KeyError"
            /\ UNCHANGED <<heap, edges>>
       ELSE LET src == vertices[source_id]
                tgt == vertices[target_id]
                h1 == [heap EXCEPT ![src].out_edges = Append(@, tgt)]
                h2 == [h1 EXCEPT ![tgt].in_edges = Append(@, tgt)]
            IN  /\ Len(edges) < MaxEdges
                /\ edges' = Append(edges, <<src, tgt>>)
                /\ heap' = h2
                /\ raised' = "none"
    /\ last' = Call("add_edge", source_id, target_id)
    /\ layers' = <<>>
    /\ positions' = EmptyMap
    /\ result' = EmptyMap
    /\ UNCHANGED <<order, vertices, nLayouts>>

\* Both dict lookups come first and raise KeyError for a missing key; the
\* three appends follow.
add_edge(source_id, target_id) ==
    /\ IF source_id \notin DOMAIN vertices \/ target_id \notin DOMAIN vertices
       THEN /\ raised' = "KeyError"
            /\ UNCHANGED <<heap, edges>>
       ELSE LET src == vertices[source_id]
                tgt == vertices[target_id]
                h1 == [heap EXCEPT ![src].out_edges = Append(@, tgt)]
                h2 == [h1 EXCEPT ![tgt].in_edges = Append(@, src)]
            IN  /\ Len(edges) < MaxEdges
                /\ edges' = Append(edges, <<src, tgt>>)
                /\ heap' = h2
                /\ raised' = "none"
    /\ last' = Call("add_edge", source_id, target_id)
    /\ layers' = <<>>
    /\ positions' = EmptyMap
    /\ result' = EmptyMap
    /\ UNCHANGED <<order, vertices, nLayouts>>

\* ---------------------------------------------------------- Graph.layout
\* lines 48-49: adjust_width_for_edges on every vertex stored in the dict
AdjustWidths(h) ==
    [o \in DOMAIN h |->
        IF \E id \in DOMAIN vertices : vertices[id] = o
        THEN adjust_width_for_edges(h[o]) ELSE h[o]]

\* roots chosen by "no inbound edge from another vertex": a vertex whose only
\* inbound edges are self-loops is taken for a root
RootQueueIgnoringSelfLoops(h) ==
    LET roots == SelectSeq(values, LAMBDA o : \A i \in DOMAIN h[o].in_edges : h[o].in_edges[i] = o)
    IN  [i \in DOMAIN roots |-> <<roots[i], 0>>]

\* lines 50-52: the roots, in dict order, enqueued at depth 0 and marked visited
RootQueue(h) ==
    LET roots == SelectSeq(values, LAMBDA o : h[o].in_edges = <<>>)
    IN  [i \in DOMAIN roots |-> <<roots[i], 0>>]

RootVisited(h) == {h[values[i]].id : i \in {j \in DOMAIN values : h[values[j]].in_edges = <<>>}}

\* the loop over current.out_edges marking the neighbours visited only
\* after the loop
RECURSIVE EnqueueMarkLate(_, _, _, _, _)
EnqueueMarkLate(h, outs, depth, queue, visited) ==
    IF outs = <<>> THEN [queue |-> queue, visited |-> visited]
    ELSE LET neighbor == Head(outs)
             r == EnqueueMarkLate(h, Tail(outs), depth,
                                  IF h[neighbor].id \notin visited
                                  THEN Append(queue, <<neighbor, depth + 1>>) ELSE queue,
                                  visited)
         IN  [queue |-> r.queue, visited |-> r.visited \cup {h[neighbor].id}]

\* lines 59-62: the loop over current.out_edges
RECURSIVE Enqueue(_, _, _, _, _)
Enqueue(h, outs, depth, queue, visited) ==
    IF outs = <<>> THEN [queue |-> queue, visited |-> visited]
    ELSE LET neighbor == Head(outs) IN
         IF h[neighbor].id \notin visited
         THEN Enqueue(h, Tail(outs), depth, Append(queue, <<neighbor, depth + 1>>),
                      visited \cup {h[neighbor].id})
         ELSE Enqueue(h, Tail(outs), depth, queue, visited)

\* layers[depth].insert(0, current) in place of the append
AppendLayerFront(lay, depth, current) ==
    IF depth + 1 > Len(lay) THEN Append(lay, <<current>>)
    ELSE [lay EXCEPT ![depth + 1] = <<current>> \o @]

\* layers[depth].append(current) on the defaultdict(list); the depths popped
\* from the queue never decrease, so the keys are 0..Len-1 and layer d is
\* element d + 1 of the sequence.
AppendLayer(lay, depth, current) ==
    IF depth + 1 > Len(lay) THEN Append(lay, <<current>>)
    ELSE [lay EXCEPT ![depth + 1] = Append(@, current)]

\* lines 55-62: the BFS loop; yields the layers and the number of pops
RECURSIVE BFS(_, _, _, _, _)
BFS(h, queue, visited, lay, pops) ==
    IF queue = <<>> THEN [layers |-> lay, visited |-> visited, pops |-> pops]
    ELSE LET current == Head(queue)[1]
             depth == Head(queue)[2]
             r == Enqueue(h, h[current].out_edges, depth, Tail(queue), visited)
         IN  BFS(h, r.queue, r.visited, AppendLayer(lay, depth, current), pops + 1)

\* lines 70-73: one layer; 80 - None raises TypeError and ends the call
RECURSIVE PlaceLayerSwappedSpacing(_, _, _, _)
PlaceLayerSwappedSpacing(st, layer, depth, k) ==
    IF k > Len(layer) \/ st.raised # "none" THEN st
    ELSE LET v == layer[k]
             y == (k - 1) * x_spacing
         IN  IF st.heap[v].height = None
             THEN [st EXCEPT !.raised = "TypeError"]
             ELSE LET p == <<depth * y_spacing, y + (80 - st.heap[v].height) \div 2>>
                  IN  PlaceLayerSwappedSpacing([st EXCEPT !.positions = Put(@, st.heap[v].id, p),
                                                          !.heap[v].pos = p],
                                               layer, depth, k + 1)

RECURSIVE PlaceLayer(_, _, _, _)
PlaceLayer(st, layer, depth, k) ==
    IF k > Len(layer) \/ st.raised # "none" THEN st
    ELSE LET v == layer[k]
             y == (k - 1) * y_spacing
         IN  IF st.heap[v].height = None
             THEN [st EXCEPT !.raised = "TypeError"]
             ELSE LET p == <<depth * x_spacing, y + (80 - st.heap[v].height) \div 2>>
                  IN  PlaceLayer([st EXCEPT !.positions = Put(@, st.heap[v].id, p),
                                            !.heap[v].pos = p],
                                 layer, depth, k + 1)

\* lines 68-73: the layers in ascending depth
RECURSIVE PlaceLayers(_, _, _)
PlaceLayers(st, lay, d) ==
    IF d > Len(lay) \/ st.raised # "none" THEN st
    ELSE PlaceLayers(PlaceLayer(st, lay[d], d - 1, 1), lay, d + 1)

\* the push to the right with < in place of <=
RECURSIVE PushOutStrict(_, _, _, _)
PushOutStrict(st, v, x, k) ==
    IF k > Len(st.heap[v].out_edges) THEN st
    ELSE LET out == vertices[st.heap[st.heap[v].out_edges[k]].id] IN
         IF st.heap[out].pos[1] < x
         THEN PushOutStrict([st EXCEPT !.heap[out].pos = <<x + st.heap[v].width + x_spacing, @[2]>>],
                            v, x, k + 1)
         ELSE PushOutStrict(st, v, x, k + 1)

\* the push to the right giving the target the y of the Unit
RECURSIVE PushOutUnitY(_, _, _, _)
PushOutUnitY(st, v, x, k) ==
    IF k > Len(st.heap[v].out_edges) THEN st
    ELSE LET out == vertices[st.heap[st.heap[v].out_edges[k]].id] IN
         IF st.heap[out].pos[1] <= x
         THEN PushOutUnitY([st EXCEPT !.heap[out].pos = <<x + st.heap[v].width + x_spacing,
                                                          st.heap[v].pos[2]>>],
                           v, x, k + 1)
         ELSE PushOutUnitY(st, v, x, k + 1)

\* lines 79-83: push the targets of Unit v, located at x, to the right
RECURSIVE PushOut(_, _, _, _)
PushOut(st, v, x, k) ==
    IF k > Len(st.heap[v].out_edges) THEN st
    ELSE LET out == vertices[st.heap[st.heap[v].out_edges[k]].id] IN
         IF st.heap[out].pos[1] <= x
         THEN PushOut([st EXCEPT !.heap[out].pos = <<x + st.heap[v].width + x_spacing, @[2]>>],
                      v, x, k + 1)
         ELSE PushOut(st, v, x, k + 1)

\* the push to the left with <= in place of >=
RECURSIVE PushInReversed(_, _, _, _)
PushInReversed(st, v, x, k) ==
    IF k > Len(st.heap[v].in_edges) \/ st.raised # "none" THEN st
    ELSE LET inc == vertices[st.heap[st.heap[v].in_edges[k]].id] IN
         IF st.heap[inc].pos[1] <= x
         THEN IF st.heap[inc].width = None
              THEN [st EXCEPT !.raised = "TypeError"]
              ELSE PushInReversed([st EXCEPT !.heap[inc].pos = <<x - x_spacing - st.heap[inc].width, @[2]>>],
                                  v, x, k + 1)
         ELSE PushInReversed(st, v, x, k + 1)

\* the push to the left by the width of the Unit
RECURSIVE PushInUnitWidth(_, _, _, _)
PushInUnitWidth(st, v, x, k) ==
    IF k > Len(st.heap[v].in_edges) \/ st.raised # "none" THEN st
    ELSE LET inc == vertices[st.heap[st.heap[v].in_edges[k]].id] IN
         IF st.heap[inc].pos[1] >= x
         THEN IF st.heap[inc].width = None
              THEN [st EXCEPT !.raised = "TypeError"]
              ELSE PushInUnitWidth([st EXCEPT !.heap[inc].pos = <<x - x_spacing - st.heap[v].width, @[2]>>],
                                   v, x, k + 1)
         ELSE PushInUnitWidth(st, v, x, k + 1)

\* lines 84-88: push the sources of Unit v to the left; a width of None
\* raises TypeError and ends the call
RECURSIVE PushIn(_, _, _, _)
PushIn(st, v, x, k) ==
    IF k > Len(st.heap[v].in_edges) \/ st.raised # "none" THEN st
    ELSE LET inc == vertices[st.heap[st.heap[v].in_edges[k]].id] IN
         IF st.heap[inc].pos[1] >= x
         THEN IF st.heap[inc].width = None
              THEN [st EXCEPT !.raised = "TypeError"]
              ELSE PushIn([st EXCEPT !.heap[inc].pos = <<x - x_spacing - st.heap[inc].width, @[2]>>],
                          v, x, k + 1)
         ELSE PushIn(st, v, x, k + 1)

\* the Unit pass over reversed(self.vertices.values())
RECURSIVE RefineBackwards(_, _)
RefineBackwards(st, i) ==
    IF i > Len(values) \/ st.raised # "none" THEN st
    ELSE LET v == values[Len(values) + 1 - i] IN
         IF st.heap[v].vtype = "Unit"
         THEN LET x == st.heap[v].pos[1]
              IN  RefineBackwards(PushIn(PushOut(st, v, x, 1), v, x, 1), i + 1)
         ELSE RefineBackwards(st, i + 1)

\* the pass without the test of the kind: every vertex pushes its neighbours
RECURSIVE RefineAllKinds(_, _)
RefineAllKinds(st, i) ==
    IF i > Len(values) \/ st.raised # "none" THEN st
    ELSE LET v == values[i]
             x == st.heap[v].pos[1]
         IN  RefineAllKinds(PushIn(PushOut(st, v, x, 1), v, x, 1), i + 1)

\* lines 76-88: the Unit pass over self.vertices.values()
RECURSIVE Refine(_, _)
Refine(st, i) ==
    IF i > Len(values) \/ st.raised # "none" THEN st
    ELSE LET v == values[i] IN
         IF st.heap[v].vtype = "Unit"
         THEN LET x == st.heap[v].pos[1]
              IN  Refine(PushIn(PushOut(st, v, x, 1), v, x, 1), i + 1)
         ELSE Refine(st, i + 1)

\* line 90: the returned dict
Returned(h) == [id \in DOMAIN vertices |-> h[vertices[id]].pos]

layout_call ==
    /\ LET h1 == AdjustWidths(heap)
           bfs == BFS(h1, RootQueue(h1), RootVisited(h1), <<>>, 0)
           placed == PlaceLayers([heap |-> h1, positions |-> EmptyMap, raised |-> "none"],
                                 bfs.layers, 1)
           refined == Refine(placed, 1)
       IN  /\ heap' = refined.heap
           /\ layers' = bfs.layers
           /\ positions' = placed.positions
           /\ raised' = refined.raised
           /\ result' = IF refined.raised = "none" THEN Returned(refined.heap) ELSE EmptyMap
    /\ last' = Call("layout", "", "")
    /\ nLayouts' = nLayouts + 1
    /\ UNCHANGED <<order, vertices, edges>>

\* layout(), as long as fewer than MaxLayouts calls were made
layout ==
    /\ nLayouts < MaxLayouts
    /\ layout_call

\* ------------------------------------------------------------------- Next
\* The ids a call can name: the registered ones and the next fresh one.
CallIds == {IdSeq[i] : i \in {j \in DOMAIN IdSeq : j <= Len(order) + 1}}

\* The calls are made on a Graph of its own, which belongs to no Sheet.
Next ==
    \/ \E id \in CallIds, vtype \in Kinds : add_vertex(id, vtype) /\ UNCHANGED objects
    \/ \E s \in CallIds, t \in CallIds : add_edge(s, t) /\ UNCHANGED objects
    \/ layout /\ UNCHANGED objects

Spec == Init /\ [][Next]_vars

\* ------------------------------------------------------------ SpecScenarios
\* Spec, extended by a second layout() call made right after the first and
\* by the four-vertex scenario of the specification's end-to-end test.  A
\* scenario ends with its second layout() call.

\* layout() called again, with no add_vertex or add_edge in between
relayout ==
    /\ last.op = "layout"
    /\ nLayouts = MaxLayouts
    /\ layout_call

\* The scenario registers a fourth vertex after a Profile, a Node and a Unit
\* were registered in this order, before any edge is added ...
ChainIds == IdSeq \o <<"d">>

chain_add_vertex ==
    /\ Len(heap) = Len(IdSeq) /\ Len(order) = Len(IdSeq)
    /\ edges = <<>> /\ nLayouts = 0
    /\ heap[1].vtype = "Profile" /\ heap[2].vtype = "Node" /\ heap[3].vtype = "Unit"
    /\ \E vtype \in Kinds : add_vertex_call(ChainIds[Len(ChainIds)], vtype)

\* ... and then joins the four vertices by the edges of the chain, in order.
chain_add_edge ==
    /\ Len(order) = Len(ChainIds)
    /\ edges = [i \in 1..Len(edges) |-> <<i, i + 1>>]
    /\ Len(edges) + 1 < Len(ChainIds)
    /\ nLayouts = 0
    /\ add_edge(ChainIds[Len(edges) + 1], ChainIds[Len(edges) + 2])

NextScenarios ==
    \/ nLayouts <= MaxLayouts /\ Next
    \/ relayout /\ UNCHANGED objects
    \/ chain_add_vertex /\ UNCHANGED objects
    \/ chain_add_edge /\ UNCHANGED objects

SpecScenarios == Init /\ [][NextScenarios]_vars

\* ---------------------------------------------------------------- SpecSheet
\* The components of a Sheet: CoreComponent.add_to on sheet.objects and
\* sheet.graph.

\* the classes of components.py that add_to registers as vertices
VertexClasses == {"Node", "Profile", "Unit"}

\* names a Connection can come with, besides the names of vertices
ConnSeq == <<"k", "l">>

\* sheet.py lines 12-13: the name is taken
add_object_raises(name) == name \in DOMAIN objects

\* what a call of add_to that raises ValueError in add_object leaves
add_to_raise(name, cctype) ==
    /\ raised' = "ValueError"
    /\ last' = Call("add_to", name, cctype)
    /\ layers' = <<>>
    /\ positions' = EmptyMap
    /\ result' = EmptyMap
    /\ UNCHANGED <<objects, heap, order, vertices, edges, nLayouts>>

\* add_to that goes on to the graph also when add_object would raise
add_to_unchecked(name, cctype) ==
    /\ Len(heap) < MaxObjs
    /\ objects' = Put(objects, name, cctype)
    /\ add_vertex_call(name, cctype)

\* components.py lines 15-26 for a Node, Profile or Unit called name:
\* add_object first, add_vertex only if it returned
add_to(name, cctype) ==
    IF add_object_raises(name) THEN add_to_raise(name, cctype)
    ELSE /\ Len(heap) < MaxObjs
         /\ objects' = Put(objects, name, cctype)
         /\ add_vertex_call(name, cctype)

\* components.py lines 15-26 for a Connection: add_object under the value of
\* its drawpyo Edge, which the model leaves open (any name), then add_edge
\* between the names of its two ends; add_edge can raise KeyError after
\* add_object has stored the Connection
add_to_connection(name, source, target) ==
    IF add_object_raises(name) THEN add_to_raise(name, "Connection")
    ELSE /\ objects' = Put(objects, name, "Connection")
         /\ add_edge(source, target)

\* names of the calls: those in use and the next unused one of each kind
UsedConn == {i \in DOMAIN ConnSeq : ConnSeq[i] \in DOMAIN objects}

ConnNames == {ConnSeq[i] : i \in {j \in DOMAIN ConnSeq : j <= Cardinality(UsedConn) + 1}}

\* a Connection can also come with the first of the names of vertices
NextSheet ==
    \/ \E name \in CallIds, cctype \in VertexClasses : add_to(name, cctype)
    \/ \E name \in ConnNames \cup {IdSeq[1]}, s \in CallIds, t \in CallIds :
          add_to_connection(name, s, t)

SpecSheet == Init /\ [][NextSheet]_vars

\* ------------------------------------------------------- shared vocabulary
\* The Vertex objects currently stored in the vertex map.
Current == {vertices[id] : id \in DOMAIN vertices}

\* number of occurrences of x in the sequence s
Count(s, x) == Cardinality({i \in DOMAIN s : s[i] = x})

Elems(s) == {s[i] : i \in DOMAIN s}

\* The last call was layout() / was layout() and returned.
LaidOut == last.op = "layout"
LayoutReturned == last.op = "layout" /\ raised = "none"

\* Some id was registered more than once: a Vertex object is no longer stored.
Reregistered == Len(heap) > Len(order)

\* ---------------------------------------------------------------------- C1
\* C1: add_edge(source_id, target_id) with an id that is not registered
\* (either of the two, also the target alone) raises an error, and that call
\* leaves the graph as it was: edge list, vertex map and every vertex's
\* in_edges and out_edges.
C1_AddEdgeUnknownFails ==
    [][(last'.op = "add_edge"
         /\ (last'.arg1 \notin DOMAIN vertices \/ last'.arg2 \notin DOMAIN vertices))
        => (raised' = "KeyError" /\ UNCHANGED graph)]_vars

\* a failed add_edge on a graph with an edge, the source known, the target not
C1_Witness ==
    /\ last.op = "add_edge" /\ raised = "KeyError"
    /\ last.arg1 \in DOMAIN vertices /\ last.arg2 \notin DOMAIN vertices
    /\ edges # <<>>

\* ---------------------------------------------------------------------- C2
\* C2: add_vertex(id, kind) with an id that is already registered raises
\* DuplicateVertex and leaves the graph unchanged.
C2_DuplicateRaises ==
    [][(last'.op = "add_vertex" /\ last'.arg1 \in DOMAIN vertices)
        => (raised' = "DuplicateVertex" /\ UNCHANGED graph)]_vars

\* ---------------------------------------------------------------------- C3
\* C3: for every pair (u, v) of Vertex objects stored in the vertex map, v
\* occurs in u.out_edges as often as u occurs in v.in_edges and as often as
\* the edge (u, v) occurs in the edge list.
C3_AdjacencyAgreesWithEdges ==
    \A u \in Current, v \in Current :
        /\ Count(heap[u].out_edges, v) = Count(edges, <<u, v>>)
        /\ Count(heap[v].in_edges, u) = Count(edges, <<u, v>>)

\* parallel edges between two stored vertices, after a vertex was replaced
\* in the map that an inbound list still refers to
C3_Witness ==
    /\ \E u \in Current, v \in Current : Count(edges, <<u, v>>) >= 2
    /\ \E v \in Current : \E i \in DOMAIN heap[v].in_edges : heap[v].in_edges[i] \notin Current
    /\ last.op = "add_edge" /\ raised = "none"

\* ---------------------------------------------------------------------- C4
\* Vertices reachable from a root (a stored vertex with empty in_edges) along
\* out_edges.
Roots == {o \in Current : heap[o].in_edges = <<>>}

Successors(S) == S \cup UNION {Elems(heap[o].out_edges) : o \in S}

RECURSIVE Within(_)
Within(k) == IF k = 0 THEN Roots ELSE Successors(Within(k - 1))

Reachable == Within(Len(heap))

\* C4: the mapping returned by layout() has no entry for a vertex that is
\* not reachable from any root.
C4_UnreachableAbsent ==
    LayoutReturned => \A id \in DOMAIN result : vertices[id] \in Reachable

\* ---------------------------------------------------------------------- C5
\* layer d of the last layout() call, the vertices it put in some layer, and
\* the layer of one
Layer(d) == IF d + 1 \in DOMAIN layers THEN Elems(layers[d + 1]) ELSE {}

Layered == UNION {Elems(layers[i]) : i \in DOMAIN layers}

DepthOf(o) == CHOOSE d \in 0..Len(layers) : o \in Layer(d)

\* length of the shortest directed path to o from any root
Dist(o) == CHOOSE k \in 0..Len(heap) : o \in Within(k) /\ (k = 0 \/ o \notin Within(k - 1))

\* C5: layout() puts every stored vertex that is reachable from a root in
\* the layer whose index is the length of the shortest directed path to it
\* from any root.
C5_DepthIsDistance ==
    LaidOut => \A v \in Current \cap Reachable : v \in Layer(Dist(v))

\* ---------------------------------------------------------------------- C6
MinOf(S) == CHOOSE m \in S : \A n \in S : m <= n

\* C6: for every edge (u, v) between stored vertices whose source u is in a
\* layer, v is in a layer and depth(v) <= depth(u) + 1; and every layered
\* stored vertex v with an inbound edge has depth(v) = 1 + the least depth of
\* its layered inbound neighbours.
C6_DepthAlongEdges ==
    LaidOut =>
        /\ \A i \in DOMAIN edges :
              LET u == edges[i][1]
                  v == edges[i][2]
              IN  (u \in Current /\ v \in Current /\ u \in Layered)
                  => (v \in Layered /\ DepthOf(v) <= DepthOf(u) + 1)
        /\ \A v \in Layered \cap Current :
              heap[v].in_edges # <<>> =>
                  LET P == Elems(heap[v].in_edges) \cap Layered
                  IN  P # {} /\ DepthOf(v) = 1 + MinOf({DepthOf(m) : m \in P})

\* ---------------------------------------------------------------------- C7
\* C7: in layout(), a vertex is in layer 0 if and only if its in_edges list
\* is empty.
C7_LayerZeroIsZeroIndegree ==
    LaidOut =>
        /\ \A v \in Current : v \in Layer(0) <=> heap[v].in_edges = <<>>
        /\ \A v \in Layer(0) : v \in Current /\ heap[v].in_edges = <<>>

\* a layout with a root, a vertex whose only inbound edge is a self-loop and
\* a vertex in a deeper layer
C7_Witness ==
    /\ LaidOut
    /\ Layer(0) # {} /\ Layer(1) # {}
    /\ \E v \in Current : heap[v].in_edges = <<v>>

\* ---------------------------------------------------------------------- C8
\* The stored Units, and the ids a Unit's lists name (layout() resolves a
\* neighbour through its id).
Units == {u \in Current : heap[u].vtype = "Unit"}

OutIds(u) == {heap[o].id : o \in Elems(heap[u].out_edges)}

InIds(u) == {heap[o].id : o \in Elems(heap[u].in_edges)}

\* x of a vertex in the returned mapping
XOf(id) == result[id][1]

\* no vertex is adjacent to more than one Unit
OneUnitEach ==
    \A id \in DOMAIN vertices :
        Cardinality({u \in Units : id \in OutIds(u) \cup InIds(u)}) <= 1

\* the conclusion of C8 for the Units of U
UnitsSeparateFlows(U) ==
    \A u \in U :
        /\ \A n \in OutIds(u) : n \in DOMAIN positions => XOf(n) > XOf(heap[u].id)
        /\ \A m \in InIds(u) : XOf(m) < XOf(heap[u].id)

NoTwoWayNeighbour == \A u \in Units : OutIds(u) \cap InIds(u) = {}

\* an edge between two Units is listed by both of them
UnitEdgesMutual ==
    \A u \in Units, w \in Units : heap[w].id \in OutIds(u) <=> heap[u].id \in InIds(w)

NodeWidth(degree) == Max(40, 20 + 10 * degree)

Degree(v) == Len(heap[v].in_edges) + Len(heap[v].out_edges)

\* C9: layout() sets the width of every stored Node to max(40, 20 + 10 *
\* degree), degree = len(in_edges) + len(out_edges), and leaves the width of
\* every vertex of another kind as it was.
C9_NodeWidth ==
    [][last'.op = "layout" =>
        \A v \in Current :
            IF heap[v].vtype = "Node"
            THEN heap'[v].width = NodeWidth(Len(heap[v].in_edges) + Len(heap[v].out_edges))
            ELSE heap'[v].width = heap[v].width]_vars

\* after layout(): a Node of degree 0 at the floor, a Node above the floor,
\* reached through parallel edges
C9_Witness ==
    /\ LaidOut
    /\ \E v \in Current : heap[v].vtype = "Node" /\ Degree(v) = 0 /\ heap[v].width = 40
    /\ \E v \in Current : heap[v].vtype = "Node" /\ heap[v].width = 50
                           /\ \E u \in Current : Count(heap[v].in_edges, u) >= 2

\* --------------------------------------------------------------------- C10
\* C10: layout() raises no error, whatever the kinds of the vertices and the
\* shape of the graph.
C10_LayoutNeverRaises == LaidOut => raised = "none"

\* --------------------------------------------------------------------- C11
\* C11: layout() called twice on the same graph, with no add_vertex or
\* add_edge in between, returns the same mapping both times.
C11_LayoutTwiceSame ==
    [][(last.op = "layout" /\ raised = "none" /\ last'.op = "layout" /\ nLayouts' = nLayouts + 1)
        => (raised' = "none" /\ result' = result)]_vars

\* --------------------------------------------------------------------- C12
\* C12: right after add_vertex(id, kind) the vertex stored under id has the
\* numeric geometry of its kind (Unit 120 x 60, Profile 80 x 80, Node 80 x 40,
\* a numeric fallback otherwise), empty in_edges and out_edges and position
\* (0, 0).
C12_DefaultGeometry ==
    last.op = "add_vertex" =>
        LET v == heap[vertices[last.arg1]] IN
        /\ v.vtype = "Unit" => v.width = 120 /\ v.height = 60
        /\ v.vtype = "Profile" => v.width = 80 /\ v.height = 80
        /\ v.vtype = "Node" => v.width = 80 /\ v.height = 40
        /\ v.width # None /\ v.height # None
        /\ v.in_edges = <<>> /\ v.out_edges = <<>>
        /\ v.pos = <<0, 0>>

\* --------------------------------------------------------------------- C13
\* C13: a successful add_edge(s, t) appends the one edge (s, t) to the edge
\* list, t to the end of s.out_edges and s to the end of t.in_edges, and
\* changes nothing else of the graph; it does so also when the edge is
\* already there and when s = t.
C13_AddEdgeAppends ==
    [][(last'.op = "add_edge" /\ raised' = "none") =>
        LET s == vertices[last'.arg1]
            t == vertices[last'.arg2]
        IN  /\ edges' = Append(edges, <<s, t>>)
            /\ DOMAIN heap' = DOMAIN heap
            /\ \A o \in DOMAIN heap :
                  heap'[o] = [heap[o] EXCEPT
                                 !.out_edges = IF o = s THEN Append(@, t) ELSE @,
                                 !.in_edges = IF o = t THEN Append(@, s) ELSE @]
            /\ UNCHANGED <<order, vertices>>]_vars

\* the last call added an edge for the second time, in a graph with a
\* self-loop
C13_Witness ==
    /\ last.op = "add_edge" /\ raised = "none"
    /\ Count(edges, edges[Len(edges)]) >= 2
    /\ \E i \in DOMAIN edges : edges[i][1] = edges[i][2]

\* --------------------------------------------------------------------- C14
\* The width and height Vertex.__init__ gives a kind.
KindWidth(vtype) == CASE vtype = "Unit" -> 120 [] vtype = "Profile" -> 80 [] OTHER -> None

KindHeight(vtype) ==
    CASE vtype = "Unit" -> 60 [] vtype = "Profile" -> 80 [] vtype = "Node" -> 40 [] OTHER -> None

\* add_vertex was called for an id that is registered and whose vertex has
\* incident edges
ReaddWithEdges ==
    /\ last'.op = "add_vertex"
    /\ last'.arg1 \in DOMAIN vertices
    /\ heap[vertices[last'.arg1]].in_edges \o heap[vertices[last'.arg1]].out_edges # <<>>
    /\ Len(heap') = Len(heap) + 1

C15_WidthAdjustIdempotent ==
    /\ [](AdjustWidths(AdjustWidths(heap)) = AdjustWidths(heap))
    /\ [][(last.op = "layout" /\ last'.op = "layout" /\ nLayouts' = nLayouts + 1)
           => \A o \in DOMAIN heap : heap'[o].width = heap[o].width]_vars

\* after the second layout(): a Node widened beyond the floor of 40
C15_Witness ==
    /\ LaidOut /\ nLayouts = MaxLayouts + 1
    /\ \E v \in Current : heap[v].vtype = "Node" /\ heap[v].width > 40

\* --------------------------------------------------------------------- C16
\* a layout() call that returns
LayoutStep == last'.op = "layout" /\ raised' = "none" /\ nLayouts' = nLayouts + 1

\* x of every stored vertex when the Unit pass of this layout() call starts:
\* the x of its placement if it got a layer, the x it had before otherwise
XBeforePass ==
    [id \in DOMAIN vertices |->
        IF vertices[id] \in Layered' THEN positions'[id][1] ELSE heap[vertices[id]].pos[1]]

YBeforePass ==
    [id \in DOMAIN vertices |->
        IF vertices[id] \in Layered' THEN positions'[id][2] ELSE heap[vertices[id]].pos[2]]

\* every Unit has a layer, its outbound neighbours a deeper and its inbound
\* neighbours a shallower one
UnitsBetweenNeighbours ==
    \A u \in Units :
        /\ u \in Layered
        /\ \A n \in OutIds(u) : vertices[n] \in Layered /\ DepthOf(vertices[n]) > DepthOf(u)
        /\ \A n \in InIds(u) : vertices[n] \in Layered /\ DepthOf(vertices[n]) < DepthOf(u)

\* the graph profile1 -> node1 -> unit1 -> node2, under the ids a, b, c, d
ChainBuilt ==
    /\ order = ChainIds /\ Len(heap) = Len(ChainIds)
    /\ [i \in 1..Len(heap) |-> heap[i].vtype] = <<"Profile", "Node", "Unit", "Node">>
    /\ edges = <<<<1, 2>>, <<2, 3>>, <<3, 4>>>>

\* C16: when every Unit's outbound neighbours are in a strictly deeper layer
\* and its inbound neighbours in a strictly shallower one, the Unit pass
\* changes no position; the chain Profile -> Node -> Unit -> Node gets the
\* depths 0, 1, 2, 3 and the x coordinates 0, 160, 320, 480.
C16_NoCorrectionNeeded ==
    [][LayoutStep =>
        /\ UnitsBetweenNeighbours' =>
              \A id \in DOMAIN vertices : result'[id] = <<XBeforePass[id], YBeforePass[id]>>
        /\ ChainBuilt =>
              /\ layers' = <<<<1>>, <<2>>, <<3>>, <<4>>>>
              /\ [i \in 1..Len(order) |-> result'[order[i]][1]] = <<0, 160, 320, 480>>
              /\ result'["b"][1] < result'["c"][1] /\ result'["c"][1] < result'["d"][1]]_vars

\* the chain, laid out
C16_Witness == ChainBuilt /\ LayoutReturned /\ UnitsBetweenNeighbours

\* --------------------------------------------------------------------- C17
\* C17: the per-layer placement puts the vertex at index i (from 0) of layer
\* d at x = d * 160 and y = i * 120 + (80 - height) / 2; a layout() that
\* returns has placed every vertex of every layer.
C17_Placement ==
    LaidOut =>
        \A d \in DOMAIN layers : \A i \in DOMAIN layers[d] :
            LET v == heap[layers[d][i]] IN
            /\ v.id \in DOMAIN positions =>
                  positions[v.id] = <<(d - 1) * 160, (i - 1) * 120 + (80 - v.height) \div 2>>
            /\ raised = "none" => v.id \in DOMAIN positions

\* two layers, one of them with two vertices of different heights
C17_Witness ==
    /\ LayoutReturned /\ Len(layers) >= 2
    /\ \E d \in DOMAIN layers :
          /\ Len(layers[d]) >= 2
          /\ heap[layers[d][1]].height # heap[layers[d][2]].height

\* --------------------------------------------------------------------- C18
\* the width Phase A gives a stored vertex
AdjustedWidth(id) ==
    IF heap[vertices[id]].vtype = "Node" THEN NodeWidth(Degree(vertices[id]))
    ELSE heap[vertices[id]].width

\* the outbound neighbours N of a Unit at ux, of width uw
StepOut(xs, ux, uw, N) ==
    [id \in DOMAIN xs |-> IF id \in N /\ xs[id] <= ux THEN ux + uw + 160 ELSE xs[id]]

\* the inbound neighbours M of a Unit at ux
StepIn(xs, ux, M) ==
    [id \in DOMAIN xs |-> IF id \in M /\ xs[id] >= ux THEN ux - 160 - AdjustedWidth(id) ELSE xs[id]]

\* the correction steps of the Units from the i-th stored vertex on
RECURSIVE UnitSteps(_, _)
UnitSteps(xs, i) ==
    IF i > Len(order) THEN xs
    ELSE LET u == vertices[order[i]]
             ux == xs[order[i]]
         IN  IF heap[u].vtype = "Unit"
             THEN UnitSteps(StepIn(StepOut(xs, ux, heap[u].width, OutIds(u)), ux, InIds(u)), i + 1)
             ELSE UnitSteps(xs, i + 1)

\* C18: the correction step of a Unit u at ux moves an outbound neighbour
\* whose x is <= ux to ux + u.width + 160 and an inbound neighbour whose x is
\* >= ux to ux - 160 - neighbour.width, the width being the one Phase A of
\* the same call computed, and moves no other vertex: the returned x
\* coordinates are those these steps give, Unit after Unit.
C18_CorrectionStep ==
    [][LayoutStep => \A id \in DOMAIN vertices : result'[id][1] = UnitSteps(XBeforePass, 1)[id]]_vars

\* a Node with a layer, moved to the left of a Unit by its own width
C18_Witness ==
    /\ LayoutReturned
    /\ \E u \in Units \cap Layered : \E n \in InIds(u) :
          /\ vertices[n] \in Layered /\ heap[vertices[n]].vtype = "Node"
          /\ positions[n][1] >= positions[heap[u].id][1]
          /\ XOf(n) = positions[heap[u].id][1] - 160 - heap[vertices[n]].width

\* --------------------------------------------------------------------- C19
\* index (from 0) of the vertex o in its layer
IndexInLayer(o) ==
    CHOOSE i \in 0..Len(heap) : \E d \in DOMAIN layers : i + 1 \in DOMAIN layers[d] /\ layers[d][i + 1] = o

\* C19: in the returned mapping the y of every vertex that got a layer is
\* the y of its placement, index_in_layer * 120 + (80 - height) / 2.
C19_YUnchanged ==
    LayoutReturned =>
        \A v \in Current \cap Layered :
            /\ result[heap[v].id][2] = positions[heap[v].id][2]
            /\ result[heap[v].id][2] = IndexInLayer(v) * 120 + (80 - heap[v].height) \div 2

\* a vertex moved by the correction, at another y than the Unit moving it
C19_Witness ==
    /\ LayoutReturned
    /\ \E u \in Units \cap Layered : \E n \in OutIds(u) \cup InIds(u) :
          /\ vertices[n] \in Layered
          /\ XOf(n) # positions[n][1]
          /\ result[n][2] # result[heap[u].id][2]

\* --------------------------------------------------------------------- C20
\* C20: after layout() on a freshly built graph every vertex that no root
\* reaches still has position (0, 0).
C20_UnreachableUntouched ==
    (LaidOut /\ nLayouts = 1) => \A v \in Current \ Reachable : heap[v].pos = <<0, 0>>

\* --------------------------------------------------------------------- C21
\* the x coordinates after the correction steps of the first k stored
\* vertices, each Unit reading what the Units before it left
RECURSIVE XsAfter(_, _)
XsAfter(xs, k) ==
    IF k = 0 THEN xs
    ELSE LET prev == XsAfter(xs, k - 1)
             u == vertices[order[k]]
         IN  IF heap[u].vtype = "Unit"
             THEN StepIn(StepOut(prev, prev[order[k]], heap[u].width, OutIds(u)),
                         prev[order[k]], InIds(u))
             ELSE prev

\* the k-th stored vertex is a Unit and its step pushes n to the right
FiresOut(xs, k, n) ==
    /\ heap[vertices[order[k]]].vtype = "Unit"
    /\ n \in OutIds(vertices[order[k]])
    /\ XsAfter(xs, k - 1)[n] <= XsAfter(xs, k - 1)[order[k]]

\* the k-th stored vertex is a Unit and its step pushes n to the left
FiresIn(xs, k, n) ==
    /\ heap[vertices[order[k]]].vtype = "Unit"
    /\ n \in InIds(vertices[order[k]])
    /\ LET ux == XsAfter(xs, k - 1)[order[k]]
       IN  StepOut(XsAfter(xs, k - 1), ux, heap[vertices[order[k]]].width,
                   OutIds(vertices[order[k]]))[n] >= ux

\* the Units, by place in registration order, whose correction fires on n
FiringOn(xs, n) == {k \in DOMAIN order : FiresOut(xs, k, n) \/ FiresIn(xs, k, n)}

\* the x the step of the k-th stored vertex writes to n
WrittenBy(xs, k, n) ==
    LET ux == XsAfter(xs, k - 1)[order[k]]
    IN  IF FiresIn(xs, k, n) THEN ux - 160 - AdjustedWidth(n)
        ELSE ux + heap[vertices[order[k]]].width + 160

MaxOf(S) == CHOOSE k \in S : \A j \in S : j <= k

\* C21: the Unit pass runs once over the Units in registration order, each
\* reading the positions the Units before it left: a vertex keeps the x
\* written by the last Unit, in that order, whose correction fires on it,
\* and the x it had when the pass started if none fires.
C21_SinglePassLastWins ==
    [][LayoutStep =>
        \A n \in DOMAIN vertices :
            result'[n][1] = IF FiringOn(XBeforePass, n) = {} THEN XBeforePass[n]
                            ELSE WrittenBy(XBeforePass, MaxOf(FiringOn(XBeforePass, n)),
                                           n)]_vars

\* x of every stored vertex when the Unit pass of the first layout() starts
XAtStart ==
    [id \in DOMAIN vertices |-> IF vertices[id] \in Layered THEN positions[id][1] ELSE 0]

\* the first layout() returned, and the corrections of two Units fired on
\* one vertex
C21_Witness ==
    /\ LayoutReturned /\ nLayouts = 1
    /\ \E n \in DOMAIN vertices : Cardinality(FiringOn(XAtStart, n)) >= 2

\* --------------------------------------------------------------------- C22
\* ids of the vertices of a sequence
IdsOf(seq) == {heap[seq[i]].id : i \in DOMAIN seq}

\* the outbound lists of the vertices of a layer, one after the other
RECURSIVE Children(_)
Children(layer) ==
    IF layer = <<>> THEN <<>> ELSE heap[Head(layer)].out_edges \o Children(Tail(layer))

\* the candidates whose id is not yet seen, each id at its first occurrence
RECURSIVE Discovered(_, _)
Discovered(cands, seen) ==
    IF cands = <<>> THEN <<>>
    ELSE IF heap[Head(cands)].id \in seen THEN Discovered(Tail(cands), seen)
    ELSE <<Head(cands)>> \o Discovered(Tail(cands), seen \cup {heap[Head(cands)].id})

\* the layers from a given one on, every layer discovered from the one above
RECURSIVE LayersFrom(_, _)
LayersFrom(layer, seen) ==
    IF layer = <<>> THEN <<>>
    ELSE LET below == Discovered(Children(layer), seen)
         IN  <<layer>> \o LayersFrom(below, seen \cup IdsOf(below))

\* the roots, in registration order
RootsInOrder ==
    SelectSeq([i \in DOMAIN order |-> vertices[order[i]]], LAMBDA o : heap[o].in_edges = <<>>)

\* C22: layer 0 lists the roots in registration order; every deeper layer
\* lists its vertices in the order of first discovery, parents in their
\* layer order and each parent's outbound list in edge-insertion order, a
\* vertex reached from several parents once, at its first discovery.
C22_LayerOrder ==
    LaidOut => layers = LayersFrom(RootsInOrder, IdsOf(RootsInOrder))

\* a deeper layer lists a vertex registered later before one registered
\* earlier, and one of its vertices has two parents
C22_Witness ==
    /\ LaidOut /\ ~Reregistered
    /\ \E d \in DOMAIN layers :
          /\ d > 1 /\ Len(layers[d]) >= 2
          /\ layers[d][1] > layers[d][2]
          /\ \E i \in DOMAIN layers[d] : Cardinality(Elems(heap[layers[d][i]].in_edges)) >= 2

\* --------------------------------------------------------------------- C24
\* number of times the BFS loop ran: every iteration pops one queue entry
\* and appends it to a layer
RECURSIVE Pops(_)
Pops(d) == IF d = 0 THEN 0 ELSE Len(layers[d]) + Pops(d - 1)

\* C24: layout() ends on every graph, with cycles, self-loops and parallel
\* edges: no vertex id is enqueued twice, so the BFS loop runs at most once
\* per vertex.
C24_BfsBounded ==
    LaidOut =>
        /\ Pops(Len(layers)) <= Len(order)
        /\ \A d \in DOMAIN layers : \A i \in DOMAIN layers[d] :
              \A e \in DOMAIN layers : \A j \in DOMAIN layers[e] :
                  heap[layers[d][i]].id = heap[layers[e][j]].id => (d = e /\ i = j)

\* layout() ended on a graph with a cycle through a layered vertex, a
\* self-loop and a parallel edge
C24_Witness ==
    /\ LaidOut /\ Len(layers) >= 2
    /\ \E i \in DOMAIN edges : edges[i][1] = edges[i][2]
    /\ \E i \in DOMAIN edges : Count(edges, edges[i]) >= 2 /\ edges[i][2] \in Layered

\* --------------------------------------------------------------------- C25
\* number of places a vertex has in the layers
Places(o) == Cardinality({<<d, i>> \in (DOMAIN layers) \X (1..Len(heap)) :
                             i \in DOMAIN layers[d] /\ layers[d][i] = o})

\* C25: every vertex has at most one place in the layers, and the vertices
\* with a place are exactly the vertices a root reaches.
C25_LayersExactlyReachable ==
    LaidOut =>
        /\ \A o \in DOMAIN heap : Places(o) <= 1
        /\ Current \cap Layered = Current \cap Reachable

\* --------------------------------------------------------------------- C26
\* ids of the inbound and outbound neighbours of the Units
UnitNeighbours == UNION {OutIds(u) \cup InIds(u) : u \in Units}

\* C26: in the returned mapping every vertex that got a layer and is no
\* neighbour of a Unit is at the position of its placement,
\* (depth * 160, index_in_layer * 120 + (80 - height) / 2).
C26_OnlyUnitNeighboursMove ==
    LayoutReturned =>
        \A v \in Current \cap Layered :
            heap[v].id \notin UnitNeighbours =>
                result[heap[v].id] = <<DepthOf(v) * 160,
                                      IndexInLayer(v) * 120 + (80 - heap[v].height) \div 2>>

\* a neighbour of a Unit was moved next to a vertex with a layer that is no
\* neighbour of a Unit
C26_Witness ==
    /\ LayoutReturned
    /\ \E v \in Current \cap Layered : heap[v].id \notin UnitNeighbours
    /\ \E n \in UnitNeighbours : vertices[n] \in Layered /\ XOf(n) # positions[n][1]

\* --------------------------------------------------------------------- C27
\* C27: a layout() call, whether it returns or raises, leaves the vertex ids,
\* every vertex's kind and height, the edge list and every inbound and
\* outbound list as they were; it writes only widths of Nodes and positions.
C27_LayoutKeepsStructure ==
    [][(last'.op = "layout" /\ nLayouts' = nLayouts + 1) =>
        /\ order' = order /\ vertices' = vertices /\ edges' = edges
        /\ DOMAIN heap' = DOMAIN heap
        /\ \A o \in DOMAIN heap :
              /\ heap'[o].id = heap[o].id
              /\ heap'[o].vtype = heap[o].vtype
              /\ heap'[o].height = heap[o].height
              /\ heap'[o].in_edges = heap[o].in_edges
              /\ heap'[o].out_edges = heap[o].out_edges
              /\ heap[o].vtype # "Node" => heap'[o].width = heap[o].width]_vars

\* layout() on a graph with an edge wrote the width of a Node and moved a
\* vertex of another kind
C27_Witness ==
    /\ LaidOut /\ edges # <<>>
    /\ \E v \in Current : heap[v].vtype = "Node" /\ heap[v].width # None
    /\ \E v \in Current : heap[v].vtype # "Node" /\ heap[v].pos # <<0, 0>>

\* --------------------------------------------------------------------- C23
\* C23: add_to of a Node, Profile or Unit whose name is a key of
\* sheet.objects raises ValueError and leaves sheet.objects and sheet.graph
\* as they were; so every vertex id of sheet.graph is a key of sheet.objects
\* and was registered once.
C23_DuplicateNameRaises ==
    /\ [][\A name \in DOMAIN objects :
            (last'.arg1 = name /\ last'.op \in {"add_to", "add_vertex"})
                => (raised' = "ValueError" /\ UNCHANGED <<objects, graph>>)]_vars
    /\ [](\A id \in DOMAIN vertices :
            /\ id \in DOMAIN objects
            /\ Cardinality({o \in DOMAIN heap : heap[o].id = id}) = 1)

\* add_to was refused for the name of a vertex that has an edge
C23_Witness ==
    /\ last.op = "add_to" /\ raised = "ValueError"
    /\ last.arg2 \in VertexClasses
    /\ last.arg1 \in DOMAIN vertices
    /\ heap[vertices[last.arg1]].in_edges \o heap[vertices[last.arg1]].out_edges # <<>>

====
